---- MODULE Spec2Model ----
(***************************************************************************)
(* Runtime argument derivation of devito/arguments.py (ArgumentEngine).   *)
(* The engine is built from declared parameters, stencils and tiling      *)
(* (DLE) descriptors; a handle call adjusts, flattens, derives and        *)
(* verifies the argument values.  Python 3 semantics are modelled: an    *)
(* ordering comparison or subtraction between an int and None or an      *)
(* UnevaluatedDependency raises TypeError.  Positions are 1-based here.   *)
(***************************************************************************)
EXTENDS Integers, Sequences, FiniteSets, TLC

VARIABLES
    parameters,        \* ArgumentEngine.parameters: sequence of providers
    dle_arguments,     \* ArgumentEngine.dle_arguments: sequence of descriptors
    stencils,          \* ArgumentEngine.stencils: dimension name -> set of offsets
    arguments,         \* ArgumentEngine.arguments: sequence of Argument nodes
    dims,              \* ArgumentEngine.dims: sequence of DimensionParameter nodes
    offsets,           \* ArgumentEngine.offsets: end name -> halo offset
    pc,                \* position of the running handle call
    input,             \* the keyword arguments handle was called with
    kwargs,            \* handle's local kwargs
    user_autotune,     \* handle's local user_autotune
    values,            \* _derive_values' local values (argument name -> value)
    dimension_values,  \* _derive_values' local dimension_values
    dle_autotune,      \* flag computed by _dle_arguments
    outcome,           \* what the call did: running / returned / raised
    parked,            \* the locals of a second handle call that is not running
    class_flags,       \* is_Time / is_Space as set on the derived classes
    derived_dims       \* the derived dimensions created so far

vars == <<parameters, dle_arguments, stencils, arguments, dims, offsets, pc,
          input, kwargs, user_autotune, values, dimension_values,
          dle_autotune, outcome, parked, class_flags, derived_dims>>

engine == <<parameters, dle_arguments, stencils, arguments, dims, offsets>>

\* the state of the dimension module
dimension_module == <<class_flags, derived_dims>>

(***************************************************************************)
(* Bounds of the model.                                                    *)
(***************************************************************************)
MaxKeys == 2       \* keyword arguments per handle call
MaxDle == 2        \* tiling descriptors per engine
MaxVerifiers == 1  \* verified_by dependencies attached to an engine
MaxTiles == 2          \* tiling descriptors of an engine built for tiling
MaxDerived == 3        \* derived dimensions created in the dimension module
MaxPairProviders == 2  \* declared providers of an engine two calls share

(***************************************************************************)
(* Python values.                                                          *)
(***************************************************************************)
None == [t |-> "None"]
PyInt(n) == [t |-> "int", n |-> n]
Bool(b) == [t |-> "bool", b |-> b]
Array(shape) == [t |-> "array", shape |-> shape]
\* a Function object (its data has the shape) and a CompositeFunction object
FunctionObject(shape) == [t |-> "function", shape |-> shape]
CompositeFunction(shape, children) ==
    [t |-> "composite", shape |-> shape, children |-> children]
Raise(exc) == [t |-> "raise", exc |-> exc]
\* extra_param is a descriptor (param, its position in dle_arguments) for
\* derive_dle_argument_value and the partial values for
\* late_evaluate_dim_size, whose closure also holds unknown_args
UnevaluatedDependency(consumer, evaluator, param, partial, unknown_args) ==
    [t |-> "UD", consumer |-> consumer, evaluator |-> evaluator,
     param |-> param, partial |-> partial, unknown_args |-> unknown_args]

IsRaise(v) == v.t = "raise"
IsUD(v) == v.t = "UD"

EmptyMap == [k \in {} |-> None]
Pop(m, k) == [j \in DOMAIN m \ {k} |-> m[j]]
Get(m, k) == IF k \in DOMAIN m THEN m[k] ELSE None
Update(m, n) == [k \in DOMAIN m \cup DOMAIN n |-> IF k \in DOMAIN n THEN n[k] ELSE m[k]]

RECURSIVE Flatten(_)
Flatten(ss) == IF Len(ss) = 0 THEN <<>> ELSE Head(ss) \o Flatten(Tail(ss))

\* devito.tools.filter_ordered: drop the later duplicates, keep the order
RECURSIVE filter_ordered(_)
filter_ordered(s) ==
    IF Len(s) = 0 THEN <<>>
    ELSE LET front == filter_ordered(SubSeq(s, 1, Len(s) - 1))
             last == s[Len(s)]
         IN IF \E i \in 1..Len(front) : front[i] = last THEN front
            ELSE Append(front, last)

\* filter_ordered(..., key=lambda x: x.name)
RECURSIVE filter_ordered_by_name(_)
filter_ordered_by_name(s) ==
    IF Len(s) = 0 THEN <<>>
    ELSE LET front == filter_ordered_by_name(SubSeq(s, 1, Len(s) - 1))
             last == s[Len(s)]
         IN IF \E i \in 1..Len(front) : front[i].name = last.name THEN front
            ELSE Append(front, last)

Range(s) == {s[i] : i \in 1..Len(s)}

(***************************************************************************)
(* Providers (the declared parameters) and tiling descriptors.             *)
(***************************************************************************)
Function(name, indices, shape) ==
    [kind |-> "Function", name |-> name, indices |-> indices,
     shape |-> shape, children |-> <<>>, parent |-> ""]
CompositeProvider(name, indices, shape, children) ==
    [kind |-> "CompositeFunction", name |-> name, indices |-> indices,
     shape |-> shape, children |-> children, parent |-> ""]
Dimension(name) ==
    [kind |-> "Dimension", name |-> name, indices |-> <<>>,
     shape |-> <<>>, children |-> <<>>, parent |-> ""]
\* SteppingDimension.__new__ takes the parent and does not store it: the
\* object has no attribute parent (recorded here as the empty name)
SteppingDimension(name, parent) ==
    [kind |-> "SteppingDimension", name |-> name, indices |-> <<>>,
     shape |-> <<>>, children |-> <<>>, parent |-> ""]

\* a stepping dimension that carries its parent, as DerivedDimension.__new__
\* stores it (the attribute assigned after SteppingDimension.__new__)
DerivedSteppingDimension(name, parent) ==
    [kind |-> "SteppingDimension", name |-> name, indices |-> <<>>,
     shape |-> <<>>, children |-> <<>>, parent |-> parent]
\* a named constant with its declared default (data) and an opaque handle
\* with its value
Constant(name, data) ==
    [kind |-> "Constant", name |-> name, indices |-> <<>>, shape |-> <<>>,
     children |-> <<>>, parent |-> "", value |-> [t |-> "int", n |-> data]]
Object(name, value) ==
    [kind |-> "Object", name |-> name, indices |-> <<>>, shape |-> <<>>,
     children |-> <<>>, parent |-> "", value |-> [t |-> "int", n |-> value]]
\* a plain scalar symbol with its declared default
Scalar(name, value) ==
    [kind |-> "Scalar", name |-> name, indices |-> <<>>, shape |-> <<>>,
     children |-> <<>>, parent |-> "", value |-> [t |-> "int", n |-> value]]

\* the class attributes is_Time and is_Space (dimension.py:12-13, 77, 93)
Flags(t, s) == [is_Time |-> t, is_Space |-> s]
BaseFlags(cls) ==
    CASE cls = "TimeDimension" -> Flags(TRUE, FALSE)
      [] cls = "SpaceDimension" -> Flags(FALSE, TRUE)
      [] OTHER -> Flags(FALSE, FALSE)
BaseClasses == {"Dimension", "SpaceDimension", "TimeDimension"}
DerivedClasses == {"DerivedDimension", "SubsampledDimension"}
\* a derived class nothing was assigned on inherits Dimension's attributes
NoFlags == [c \in DerivedClasses |-> BaseFlags("Dimension")]

\* a parent: an instance of a base class or the i-th derived dimension
BaseParent(cls) == [derived |-> FALSE, cls |-> cls, i |-> 0]
DerivedParent(i) == [derived |-> TRUE, cls |-> "", i |-> i]
\* parent.is_Time / parent.is_Space: the attribute lookup goes to the class
FlagsOf(parent, cf, objs) ==
    IF parent.derived THEN cf[objs[parent.i].cls] ELSE BaseFlags(parent.cls)

IsSymbolicFunction(p) == p.kind \in {"Function", "CompositeFunction"}
IsDimension(p) == p.kind \in {"Dimension", "SteppingDimension"}

size_name(d) == d \o "_size"
start_name(d) == d \o "_s"
end_name(d) == d \o "_e"

\* value of a tiling descriptor: None, a sizing function or a fixed number
NoSizing == [k |-> "None", c |-> 0]
SizingFunction == [k |-> "fn", c |-> 0]
FixedSize(c) == [k |-> "const", c |-> c]
DleArgument(argument, original_dim, value) ==
    [argument |-> argument, original_dim |-> original_dim, value |-> value]

\* the sizing function the descriptors carry: half the extent
ApplySizing(dim_size) == dim_size \div 2
\* Python truthiness of a descriptor's value (line 229, line 446)
Truthy(value) == value.k = "fn" \/ (value.k = "const" /\ value.c # 0)

(***************************************************************************)
(* Graph nodes and edges.                                                  *)
(***************************************************************************)
GETS_VALUE_FROM == "gets_value_from"
VERIFIED_BY == "verified_by"

\* kind is the class of the target obj, which the visitors dispatch on
Dependency(dependency_type, kind, obj, param) ==
    [dependency_type |-> dependency_type, kind |-> kind, obj |-> obj,
     param |-> param]

Node(cls, name, dependencies) ==
    [cls |-> cls, name |-> name, dependencies |-> dependencies]

gets_value_from(node) ==
    LET Is(x) == x.dependency_type = GETS_VALUE_FROM
    IN SelectSeq(node.dependencies, Is)

verified_by(node) ==
    LET Is(x) == x.dependency_type = VERIFIED_BY
    IN SelectSeq(node.dependencies, Is)

DimensionParameter(provider, dependencies) ==
    Node("DimensionParameter", provider, dependencies)

TensorArgument(provider) ==
    Node("TensorArgument", provider.name,
         <<Dependency(GETS_VALUE_FROM, provider.kind, provider.name, 0)>>)

PtrArgument(provider) ==
    Node("PtrArgument", provider.name,
         <<Dependency(GETS_VALUE_FROM, provider.kind, provider.name, 0)>>)

\* the three arguments and a fourth under the dimension's own name
DimensionArguments_with_dimension(o) ==
    LET dependency == Dependency(GETS_VALUE_FROM, "DimensionParameter", o.name, 0)
    IN << Node("ScalarArgument", size_name(o.name), <<dependency>>),
          Node("ScalarArgument", start_name(o.name), <<dependency>>),
          Node("ScalarArgument", end_name(o.name), <<dependency>>),
          Node("ScalarArgument", o.name, <<dependency>>) >>

\* ArgumentVisitor.visit_DimensionParameter: size, start, end
DimensionArguments(o) ==
    LET dependency == Dependency(GETS_VALUE_FROM, "DimensionParameter", o.name, 0)
    IN << Node("ScalarArgument", size_name(o.name), <<dependency>>),
          Node("ScalarArgument", start_name(o.name), <<dependency>>),
          Node("ScalarArgument", end_name(o.name), <<dependency>> ) >>

\* ArgumentVisitor.visit_Scalar: the dependencies of the argument are the
\* provider o itself, not a list holding the dependency on it
ScalarOf(o) ==
    [cls |-> "ScalarArgument", name |-> o.name, dependencies |-> <<>>,
     not_a_list |-> o.name]

\* whether the dependencies of a node can be iterated (lines 43 and 47)
Iterable(node) == "not_a_list" \notin DOMAIN node

\* ArgumentVisitor.visit_Scalar / visit_Constant / visit_Object
OtherArgument(o) ==
    IF o.kind = "Scalar" THEN ScalarOf(o)
    ELSE IF o.kind = "Constant"
    THEN Node("ScalarArgument", o.name,
              <<Dependency(GETS_VALUE_FROM, o.kind, o.name, 0)>>)
    ELSE PtrArgument(o)

(***************************************************************************)
(* ArgumentEngine._build_argument_mapper                                   *)
(***************************************************************************)
symbolic_functions(P) == SelectSeq(P, IsSymbolicFunction)

tensor_arguments(P) ==
    [k \in 1..Len(symbolic_functions(P)) |->
        TensorArgument(symbolic_functions(P)[k])]

\* the (dimension, dependency) pairs in the order lines 160-172 append them
DependencyPairs(P, D) ==
    LET sf == symbolic_functions(P)
        fromTensors ==
            Flatten([k \in 1..Len(sf) |->
                [i \in 1..Len(sf[k].indices) |->
                    [dim |-> sf[k].indices[i],
                     dep |-> Dependency(GETS_VALUE_FROM, "TensorArgument",
                                        sf[k].name, i)]]])
        fromDle ==
            [j \in 1..Len(D) |->
                [dim |-> D[j].argument,
                 dep |-> Dependency(GETS_VALUE_FROM, "function",
                                    "derive_dle_argument_value", j)]]
    IN fromTensors \o fromDle

dimension_dependency_mapper(P, D) ==
    LET pairs == DependencyPairs(P, D)
        keys == filter_ordered([i \in 1..Len(pairs) |-> pairs[i].dim])
        DepsOf(d) ==
            LET Is(p) == p.dim = d
                mine == SelectSeq(pairs, Is)
            IN [i \in 1..Len(mine) |-> mine[i].dep]
    IN [k \in 1..Len(keys) |-> DimensionParameter(keys[k], DepsOf(keys[k]))]

\* lines 175-181: one DimensionParameter per dimension, the declared
\* dimensions that nothing references last and without dependencies
dimension_parameter_mapper(P, D) ==
    LET referenced == dimension_dependency_mapper(P, D)
        names == {referenced[i].name : i \in 1..Len(referenced)}
        Unreferenced(x) == IsDimension(x) /\ x.name \notin names
        rest == filter_ordered_by_name(SelectSeq(P, Unreferenced))
    IN referenced \o [i \in 1..Len(rest) |-> DimensionParameter(rest[i].name, <<>>)]

\* line 185: dependencies.append on the node of dimension name
AppendDependency(mapper, name, dep) ==
    [k \in 1..Len(mapper) |->
        IF mapper[k].name = name
        THEN [mapper[k] EXCEPT !.dependencies = Append(@, dep)]
        ELSE mapper[k]]

\* the loop with the edge of the commented line 184: the node of the
\* stepping dimension gets the dependency, on its parent's node
RECURSIVE SteppingFrom_reversed(_, _)
SteppingFrom_reversed(stepping, mapper) ==
    IF Len(stepping) = 0 THEN [exc |-> "", mapper |-> mapper]
    ELSE LET dim == Head(stepping)
         IN IF dim.parent = ""
            THEN [exc |-> "AttributeError", mapper |-> mapper]
            ELSE IF \A k \in 1..Len(mapper) : mapper[k].name # dim.parent
            THEN [exc |-> "KeyError", mapper |-> mapper]
            ELSE SteppingFrom_reversed(Tail(stepping),
                     AppendDependency(mapper, dim.name,
                         Dependency(GETS_VALUE_FROM, "DimensionParameter",
                                    dim.parent, 0)))

\* the loop of lines 183-185 over the stepping dimensions still to visit:
\* a missing parent attribute raises AttributeError, a parent that has no
\* node KeyError, otherwise the parent's node gets a dependency on the
\* stepping dimension's node
RECURSIVE SteppingFrom(_, _)
SteppingFrom(stepping, mapper) ==
    IF Len(stepping) = 0 THEN [exc |-> "", mapper |-> mapper]
    ELSE LET dim == Head(stepping)
         IN IF dim.parent = ""
            THEN [exc |-> "AttributeError", mapper |-> mapper]
            ELSE IF \A k \in 1..Len(mapper) : mapper[k].name # dim.parent
            THEN [exc |-> "KeyError", mapper |-> mapper]
            ELSE SteppingFrom(Tail(stepping),
                     AppendDependency(mapper, dim.parent,
                         Dependency(GETS_VALUE_FROM, "DimensionParameter",
                                    dim.name, 0)))

\* lines 183-185
SteppingLoop(P, mapper) ==
    LET IsStepping(x) == IsDimension(x) /\ x.kind = "SteppingDimension"
    IN SteppingFrom(SelectSeq(P, IsStepping), mapper)

scalar_arguments(dimension_parameters) ==
    Flatten([i \in 1..Len(dimension_parameters) |->
                DimensionArguments(dimension_parameters[i])])

\* line 194: the providers no earlier step covered
IsCovered(x) == IsSymbolicFunction(x) \/ IsDimension(x)

other_arguments(P) ==
    LET Other(x) == ~IsCovered(x)
        rest == SelectSeq(P, Other)
    IN [i \in 1..Len(rest) |-> OtherArgument(rest[i])]

\* the nodes with the other arguments ahead of the tensor arguments
_build_argument_mapper_others_first(P, D) ==
    LET stepped == SteppingLoop(P, dimension_parameter_mapper(P, D))
        dimension_parameters == stepped.mapper
    IN [exc |-> stepped.exc,
        mapper |-> other_arguments(P) \o tensor_arguments(P)
                   \o dimension_parameters
                   \o scalar_arguments(dimension_parameters)]

_build_argument_mapper(P, D) ==
    LET stepped == SteppingLoop(P, dimension_parameter_mapper(P, D))
        dimension_parameters == stepped.mapper
    IN [exc |-> stepped.exc,
        mapper |-> tensor_arguments(P) \o dimension_parameters
                   \o scalar_arguments(dimension_parameters)
                   \o other_arguments(P)]

\* devito.ir.support.stencil.retrieve_offsets: per dimension, the largest
\* absolute relative offset of the stencils
Abs(n) == IF n < 0 THEN -n ELSE n
retrieve_offsets(S) ==
    [d \in DOMAIN S |->
        CHOOSE m \in {Abs(o) : o \in S[d]} : \A o \in S[d] : Abs(o) <= m]

EndNames(S) == {end_name(d) : d \in DOMAIN S}
\* line 125
Offsets(S) ==
    [k \in EndNames(S) |->
        LET d == CHOOSE d \in DOMAIN S : end_name(d) = k
        IN retrieve_offsets(S)[d]]

(***************************************************************************)
(* Value resolution: ValueVisitor, get_value and the free evaluators.      *)
(* known_values is the pair of the argument values and, in pass 2, the     *)
(* dimension values chained after them.                                    *)
(***************************************************************************)
KnownValues(vals, dimvals) == [args |-> vals, dims |-> dimvals]

find_argument_by_name(name, haystack) ==
    IF name \in DOMAIN haystack.args THEN haystack.args[name]
    ELSE IF name \in DOMAIN haystack.dims THEN haystack.dims[name]
    ELSE None

\* end - start; a TypeError (None, placeholder) is caught and gives None
runtime_dim_extent(dimension, vals) ==
    LET e == find_argument_by_name(end_name(dimension), vals)
        s == find_argument_by_name(start_name(dimension), vals)
    IN IF e.t = "int" /\ s.t = "int" THEN PyInt(e.n - s.n) ELSE None

derive_dle_argument_value(blocked_dim, known_values, j, D) ==
    LET dle_argument == D[j]
        dim_size == runtime_dim_extent(dle_argument.original_dim, known_values)
    IN IF dim_size = None
       THEN UnevaluatedDependency(blocked_dim, "derive_dle_argument_value",
                                  j, <<>>, <<>>)
       ELSE IF Truthy(dle_argument.value)
            THEN IF dle_argument.value.k = "fn"
                 THEN PyInt(ApplySizing(dim_size.n))
                 ELSE PyInt(dle_argument.value.c)
            ELSE dim_size

FirstRaise(pv) == pv[CHOOSE i \in 1..Len(pv) :
                        IsRaise(pv[i]) /\ \A k \in 1..(i-1) : ~IsRaise(pv[k])]
AnyRaise(pv) == \E i \in 1..Len(pv) : IsRaise(pv[i])

NotNone(seq) == LET Is(x) == x # None IN SelectSeq(seq, Is)

ProviderOf(P, name) == CHOOSE x \in Range(P) : x.name = name
DimNode(DS, name) == CHOOSE x \in Range(DS) : x.name = name

\* the visit of a value the caller passed (pass 1): a Function object
\* gives its data, any other object itself
visit_object(consumer, o) ==
    IF o.t \in {"function", "composite"}
    THEN IF consumer.cls = "TensorArgument" THEN Array(o.shape)
         ELSE Raise("AssertionError")
    ELSE o

\* functools.reduce(max, seq) with max replaced by min
ReduceMin(seq) ==
    IF Len(seq) = 0 THEN Raise("TypeError")
    ELSE IF Len(seq) = 1 THEN seq[1]
    ELSE IF \A i \in 1..Len(seq) : seq[i].t = "int"
         THEN PyInt(CHOOSE m \in {seq[i].n : i \in 1..Len(seq)} :
                        \A i \in 1..Len(seq) : m <= seq[i].n)
         ELSE Raise("TypeError")

\* functools.reduce(max, seq)
ReduceMax(seq) ==
    IF Len(seq) = 0 THEN Raise("TypeError")
    ELSE IF Len(seq) = 1 THEN seq[1]
    ELSE IF \A i \in 1..Len(seq) : seq[i].t = "int"
         THEN PyInt(CHOOSE m \in {seq[i].n : i \in 1..Len(seq)} :
                        \A i \in 1..Len(seq) : seq[i].n <= m)
         ELSE Raise("TypeError")

\* E is the engine: parameters P, descriptors D, dimension nodes DS
RECURSIVE get_value(_, _, _, _)
\* the candidates and their maximum, a known value of the dimension ignored
reduce_candidates_no_override(o, known_values, E) ==
    LET deps == gets_value_from(o)
        all_values == [i \in 1..Len(deps) |-> get_value(o, deps[i], known_values, E)]
        overridden == FALSE
        provided_values == IF overridden THEN <<known_values.dims[o.name]>>
                           ELSE all_values
        IsUnknown(i) == all_values[i] = None
        unknown == SelectSeq([i \in 1..Len(deps) |-> i], IsUnknown)
        unknown_args == [i \in 1..Len(unknown) |->
                            [kind |-> deps[unknown[i]].kind,
                             obj |-> deps[unknown[i]].obj]]
    IN IF AnyRaise(all_values) THEN FirstRaise(all_values)
       ELSE IF Len(provided_values) > 1
       THEN IF \E i \in 1..Len(provided_values) : provided_values[i] = None
            THEN UnevaluatedDependency(o.name, "late_evaluate_dim_size", 0,
                                       NotNone(provided_values), unknown_args)
            ELSE ReduceMax(provided_values)
       ELSE IF Len(provided_values) = 1 THEN provided_values[1]
       ELSE None

\* visit_DimensionParameter, lines 343-363: the candidates and their maximum
reduce_candidates(o, known_values, E) ==
    LET deps == gets_value_from(o)
        all_values == [i \in 1..Len(deps) |-> get_value(o, deps[i], known_values, E)]
        overridden == /\ o.name \in DOMAIN known_values.dims
                      /\ ~IsUD(known_values.dims[o.name])
                      /\ known_values.dims[o.name] # None
        provided_values == IF overridden THEN <<known_values.dims[o.name]>>
                           ELSE all_values
        IsUnknown(i) == all_values[i] = None
        unknown == SelectSeq([i \in 1..Len(deps) |-> i], IsUnknown)
        unknown_args == [i \in 1..Len(unknown) |->
                            [kind |-> deps[unknown[i]].kind,
                             obj |-> deps[unknown[i]].obj]]
    IN IF AnyRaise(all_values) THEN FirstRaise(all_values)
       ELSE IF Len(provided_values) > 1
       THEN IF \E i \in 1..Len(provided_values) : provided_values[i] = None
            THEN UnevaluatedDependency(o.name, "late_evaluate_dim_size", 0,
                                       NotNone(provided_values), unknown_args)
            ELSE ReduceMax(provided_values)
       ELSE IF Len(provided_values) = 1 THEN provided_values[1]
       ELSE None

\* visit_DimensionParameter without the default of the start argument
visit_DimensionParameter_no_start(o, consumer, known_values, E) ==
    reduce_candidates(o, known_values, E)

visit_DimensionParameter(o, consumer, known_values, E) ==
    IF consumer.name = start_name(o.name) THEN PyInt(0)
    ELSE reduce_candidates(o, known_values, E)

visit_TensorArgument(o, param, consumer, known_values) ==
    IF consumer.cls # "DimensionParameter" THEN Raise("AssertionError")
    ELSE IF o \notin DOMAIN known_values.args THEN Raise("KeyError")
    ELSE LET v == known_values.args[o]
         IN IF v.t # "array" THEN Raise("AttributeError")
            ELSE IF param > Len(v.shape) THEN Raise("IndexError")
            ELSE PyInt(v.shape[param])

\* ValueVisitor.visit_Dependency: dispatch on the class of the target
get_value(consumer, dep, known_values, E) ==
    CASE dep.kind \in {"Function", "CompositeFunction"} ->
            IF consumer.cls = "TensorArgument"
            THEN Array(ProviderOf(E.P, dep.obj).shape)
            ELSE Raise("AssertionError")
      [] dep.kind \in {"Constant", "Object", "Scalar"} ->
            ProviderOf(E.P, dep.obj).value
      [] dep.kind = "function" ->
            derive_dle_argument_value(consumer.name, known_values, dep.param, E.D)
      [] dep.kind = "DimensionParameter" ->
            visit_DimensionParameter(DimNode(E.DS, dep.obj), consumer,
                                     known_values, E)
      [] dep.kind = "TensorArgument" ->
            visit_TensorArgument(dep.obj, dep.param, consumer, known_values)
      [] OTHER -> Raise("RuntimeError")

\* the keys of known_values are nodes: a dimension node, a tensor argument
HasKey(known_values, a) ==
    \/ a.kind = "DimensionParameter" /\ a.obj \in DOMAIN known_values.dims
    \/ a.kind = "TensorArgument" /\ a.obj \in DOMAIN known_values.args
KeyValue(known_values, a) ==
    IF a.kind = "DimensionParameter" THEN known_values.dims[a.obj]
    ELSE known_values.args[a.obj]

\* the closure of visit_DimensionParameter (lines 349-356)
late_evaluate_dim_size(unknown_args, known_values, partial_values) ==
    LET found == \A i \in 1..Len(unknown_args) : HasKey(known_values, unknown_args[i])
        new_values == [i \in 1..Len(unknown_args) |->
                          KeyValue(known_values, unknown_args[i])]
        known == IF found THEN NotNone(new_values) ELSE <<>>
    IN ReduceMax(partial_values \o known)

\* UnevaluatedDependency.evaluate
evaluate(v, known_values, E) ==
    IF v.evaluator = "derive_dle_argument_value"
    THEN derive_dle_argument_value(v.consumer, known_values, v.param, E.D)
    ELSE late_evaluate_dim_size(v.unknown_args, known_values, v.partial)

(***************************************************************************)
(* The engines and inputs of the model.                                    *)
(***************************************************************************)
\* declared providers an engine may be built from, in declaration order
Candidates ==
    << CompositeProvider("c", <<"w">>, <<40>>, <<"f", "g">>),
       Function("f", <<"x">>, <<10>>),
       Function("g", <<"x">>, <<14>>),
       Dimension("x"),
       Dimension("w"),
       SteppingDimension("t", "x") >>

SubSeqBy(s, S) ==
    LET In(i) == i \in S
        idx == SelectSeq([i \in 1..Len(s) |-> i], In)
    IN [i \in 1..Len(idx) |-> s[idx[i]]]

ParameterLists == {SubSeqBy(Candidates, S) : S \in SUBSET (1..Len(Candidates))}

Descriptors ==
    { DleArgument("xb", "x", SizingFunction),
      DleArgument("xb", "x", FixedSize(0)),
      DleArgument("xb", "x", FixedSize(8)),
      DleArgument("x", "w", SizingFunction) }

DleLists == UNION {[1..n -> Descriptors] : n \in 0..MaxDle}

StencilSets == { [d \in {"x"} |-> {-1, 0, 2}] }

\* the keyword arguments a call may carry, as (key, value) options
PlainOptions ==
    { <<"autotune", Bool(TRUE)>>,
      <<"f", Array(<<16>>)>>,
      <<"x", PyInt(20)>>,
      <<"w", PyInt(6)>>,
      <<"x_e", PyInt(9)>>,
      <<"x_s", PyInt(1)>>,
      <<"x_size", PyInt(5)>> }

CompositeOptions ==
    { <<"zz", PyInt(1)>>,
      <<"zz", CompositeFunction(<<7>>, <<FunctionObject(<<11>>)>>)>>,
      <<"c", CompositeFunction(<<30>>, <<FunctionObject(<<11>>), FunctionObject(<<15>>)>>)>>,
      <<"c", CompositeFunction(<<30>>, <<FunctionObject(<<11>>)>>)>> }

\* the calls with at most MaxKeys of the options, one value per key
InputsOf(options) ==
    { [k \in {o[1] : o \in S} |-> (CHOOSE o \in S : o[1] = k)[2]] :
        S \in { T \in SUBSET options :
                  /\ Cardinality(T) <= MaxKeys
                  /\ \A a, b \in T : a[1] = b[1] => a = b } }

Inputs == InputsOf(PlainOptions)
CompositeInputs == InputsOf(PlainOptions \cup CompositeOptions)

\* providers of every kind, a dimension declared before the tensors
WideCandidates ==
    << Constant("k", 3),
       Dimension("x"),
       Function("f", <<"x">>, <<10>>),
       Function("g", <<"x">>, <<14>>),
       DerivedSteppingDimension("t", "x"),
       DerivedSteppingDimension("u", "x"),
       DerivedSteppingDimension("v", "t"),
       Object("o", 7) >>

WideParameterLists ==
    {SubSeqBy(WideCandidates, S) : S \in SUBSET (1..Len(WideCandidates))}

WideOptions ==
    { <<"x", PyInt(20)>>,
      <<"t", PyInt(5)>>,
      <<"k", PyInt(4)>>,
      <<"x_size", PyInt(5)>>,
      <<"f", Array(<<16>>)>> }

WideInputs == InputsOf(WideOptions)

\* the engines and calls of two handle invocations on one engine
PairParameterLists == {p \in ParameterLists : Len(p) <= MaxPairProviders}
PairDleLists == {d \in DleLists : Len(d) <= 1}
PairOptions ==
    { <<"autotune", Bool(TRUE)>>,
      <<"x", PyInt(20)>>,
      <<"x_e", PyInt(9)>> }
PairInputs == InputsOf(PairOptions)

\* the engines and calls with plain scalars and named constants
ScalarCandidates ==
    << Function("f", <<"x">>, <<10>>),
       Scalar("s", 2),
       Constant("k", 3),
       Object("o", 7),
       Dimension("x") >>
ScalarParameterLists ==
    {SubSeqBy(ScalarCandidates, S) : S \in SUBSET (1..Len(ScalarCandidates))}
ScalarOptions ==
    { <<"s", PyInt(5)>>, <<"k", PyInt(4)>>, <<"x", PyInt(20)>> }
ScalarInputs == InputsOf(ScalarOptions)

\* the engines and calls for tiling: descriptors of every sizing value
TilingCandidates ==
    << Function("f", <<"x">>, <<10>>),
       Function("h", <<"x", "x">>, <<6, 7>>),
       Dimension("x"),
       Dimension("w") >>
TilingParameterLists ==
    {SubSeqBy(TilingCandidates, S) : S \in SUBSET (1..Len(TilingCandidates))}
TilingDescriptors ==
    { DleArgument("xb", "x", SizingFunction),
      DleArgument("xb", "x", FixedSize(0)),
      DleArgument("xb", "x", FixedSize(8)),
      DleArgument("xb", "x", NoSizing),
      DleArgument("wb", "w", SizingFunction) }
TilingDleLists == UNION {[1..n -> TilingDescriptors] : n \in 0..MaxTiles}
TilingOptions ==
    { <<"autotune", Bool(TRUE)>>,
      <<"x", PyInt(20)>>,
      <<"w", PyInt(6)>>,
      <<"x_e", PyInt(9)>> }
TilingInputs == InputsOf(TilingOptions)

\* the predicates a verified_by dependency may carry: value at most param
Predicates == { [name |-> "at_most", limit |-> 12] }

Holds(dep, v) ==
    IF v.t = "int" THEN v.n <= dep.param
    ELSE IF v.t = "array" THEN \A i \in 1..Len(v.shape) : v.shape[i] <= dep.param
    ELSE FALSE

Unset == [status |-> "none", exc |-> "", at |-> ""]

\* the locals of a handle call that has not started
IdleLocals ==
    [pc |-> "idle", input |-> EmptyMap, kwargs |-> EmptyMap,
     user_autotune |-> FALSE, values |-> EmptyMap,
     dimension_values |-> EmptyMap, dle_autotune |-> TRUE, outcome |-> Unset]

Init ==
    /\ parameters \in ParameterLists
    /\ dle_arguments \in DleLists
    /\ stencils \in StencilSets
    /\ arguments = <<>>
    /\ dims = <<>>
    /\ offsets = EmptyMap
    /\ pc = "new"
    /\ input = EmptyMap
    /\ kwargs = EmptyMap
    /\ user_autotune = FALSE
    /\ values = EmptyMap
    /\ dimension_values = EmptyMap
    /\ dle_autotune = TRUE
    /\ outcome = Unset
    /\ parked = IdleLocals
    /\ class_flags = NoFlags
    /\ derived_dims = <<>>

\* ArgumentEngine.__init__
Construct ==
    /\ pc = "new"
    /\ LET built == _build_argument_mapper(parameters, dle_arguments)
           IsArgument(x) == x.cls # "DimensionParameter"
           IsDim(x) == x.cls = "DimensionParameter"
       IN IF built.exc # ""
          THEN /\ pc' = "unbuilt"
               /\ outcome' = [status |-> "raised", exc |-> built.exc,
                              at |-> "__init__"]
               /\ UNCHANGED <<arguments, dims, offsets>>
          ELSE /\ pc' = "idle"
               /\ arguments' = filter_ordered_by_name(SelectSeq(built.mapper, IsArgument))
               /\ dims' = SelectSeq(built.mapper, IsDim)
               /\ offsets' = Offsets(stencils)
               /\ UNCHANGED outcome
    /\ UNCHANGED <<parameters, dle_arguments, stencils, input, kwargs,
                   user_autotune, values, dimension_values, dle_autotune>>
    /\ UNCHANGED <<parked, dimension_module>>


Engine == [P |-> parameters, D |-> dle_arguments, DS |-> dims]

Running == [status |-> "running", exc |-> "", at |-> ""]
Raised(exc, at) == [status |-> "raised", exc |-> exc, at |-> at]
Returned == [status |-> "returned", exc |-> "", at |-> ""]

\* handle, line 129: a call with keyword arguments inp
Call(inp) ==
    /\ pc = "idle"
    /\ input' = inp
    /\ user_autotune' = IF "autotune" \in DOMAIN inp THEN inp["autotune"].b ELSE FALSE
    /\ kwargs' = Pop(inp, "autotune")
    /\ values' = EmptyMap
    /\ dimension_values' = EmptyMap
    /\ dle_autotune' = TRUE
    /\ outcome' = Running
    /\ pc' = "_offset_adjust"
    /\ UNCHANGED engine
    /\ UNCHANGED <<parked, dimension_module>>

\* v + self.offsets[k]
AddOffset(v, h) ==
    IF v.t = "int" THEN PyInt(v.n + h)
    ELSE IF v.t = "array" THEN v
    ELSE Raise("TypeError")

\* _offset_adjust adding the offset to every numeric entry
_offset_adjust_every_key(kw, offs) ==
    [k \in DOMAIN kw |->
        IF kw[k].t = "int" /\ DOMAIN offs # {}
        THEN PyInt(kw[k].n + offs[CHOOSE e \in DOMAIN offs : TRUE]) ELSE kw[k]]

_offset_adjust(kw, offs) ==
    [k \in DOMAIN kw |-> IF k \in DOMAIN offs THEN AddOffset(kw[k], offs[k]) ELSE kw[k]]

\* _offset_adjust keeping the adjusted value in self.offsets
OffsetAdjust_accumulating ==
    /\ pc = "_offset_adjust"
    /\ kwargs' = _offset_adjust(kwargs, offsets)
    /\ offsets' = [k \in DOMAIN offsets |->
                      IF k \in DOMAIN kwargs THEN kwargs[k].n + offsets[k]
                      ELSE offsets[k]]
    /\ pc' = "_extract_children_of_composites"
    /\ UNCHANGED <<parameters, dle_arguments, stencils, arguments, dims, input,
                   user_autotune, values, dimension_values, dle_autotune,
                   outcome, parked, dimension_module>>

\* _offset_adjust taking the offset out of self.offsets (offsets.pop(k))
OffsetAdjust_popping ==
    /\ pc = "_offset_adjust"
    /\ kwargs' = _offset_adjust(kwargs, offsets)
    /\ offsets' = [k \in DOMAIN offsets \ DOMAIN kwargs |-> offsets[k]]
    /\ pc' = "_extract_children_of_composites"
    /\ UNCHANGED <<parameters, dle_arguments, stencils, arguments, dims, input,
                   user_autotune, values, dimension_values, dle_autotune,
                   outcome, parked, dimension_module>>

OffsetAdjust ==
    /\ pc = "_offset_adjust"
    /\ LET adjusted == _offset_adjust(kwargs, offsets)
       IN IF \E k \in DOMAIN adjusted : IsRaise(adjusted[k])
          THEN /\ outcome' = Raised("TypeError", "_offset_adjust")
               /\ pc' = "done"
               /\ UNCHANGED kwargs
          ELSE /\ kwargs' = adjusted
               /\ pc' = "_extract_children_of_composites"
               /\ UNCHANGED outcome
    /\ UNCHANGED <<engine, input, user_autotune, values, dimension_values, dle_autotune>>
    /\ UNCHANGED <<parked, dimension_module>>

\* lines 204-208: the parameters named k; with none, the message is built
\* as "..." + ("passed to this Operator" % k), and % on a string without
\* a conversion raises TypeError before InvalidArgument is constructed
UnknownCompositeError == "TypeError"

orig_param_l(P, k) == LET Is(x) == x.name = k IN SelectSeq(P, Is)

Min(a, b) == IF a < b THEN a ELSE b

\* the pairing with every declared child given the first supplied child
ChildParams_first_child(orig_param, v) ==
    LET n == Min(Len(orig_param.children), Len(v.children))
    IN [name \in {orig_param.children[i] : i \in 1..n} |-> v.children[1]]

\* lines 214-215 for one composite: zip pairs the children by position
ChildParams(orig_param, v) ==
    LET n == Min(Len(orig_param.children), Len(v.children))
    IN [name \in {orig_param.children[i] : i \in 1..n} |->
          v.children[CHOOSE i \in 1..n :
                        /\ orig_param.children[i] = name
                        /\ \A m \in (i+1)..n : orig_param.children[m] # name]]

CompositeKeys(kw) == {k \in DOMAIN kw : kw[k].t = "composite"}

\* new_params of all the composites (the declared child names are
\* distinct across the declared composites of the model)
new_params(kw, P) ==
    LET ks == CompositeKeys(kw)
        names == UNION {DOMAIN ChildParams(orig_param_l(P, k)[1], kw[k]) : k \in ks}
    IN [name \in names |->
          LET k == CHOOSE k \in ks : name \in DOMAIN ChildParams(orig_param_l(P, k)[1], kw[k])
          IN ChildParams(orig_param_l(P, k)[1], kw[k])[name]]

_extract_children_of_composites(kw, P) ==
    LET ks == CompositeKeys(kw)
    IN IF \E k \in ks : Len(orig_param_l(P, k)) = 0
       THEN [exc |-> UnknownCompositeError, kwargs |-> kw]
       ELSE IF \E k \in ks : Len(orig_param_l(P, k)) # 1
       THEN [exc |-> "AssertionError", kwargs |-> kw]
       ELSE [exc |-> "", kwargs |-> Update(kw, new_params(kw, P))]

ExtractChildren ==
    /\ pc = "_extract_children_of_composites"
    /\ LET r == _extract_children_of_composites(kwargs, parameters)
       IN IF r.exc # ""
          THEN /\ outcome' = Raised(r.exc, "_extract_children_of_composites")
               /\ pc' = "done"
               /\ UNCHANGED kwargs
          ELSE /\ kwargs' = r.kwargs
               /\ pc' = "_derive_values"
               /\ UNCHANGED outcome
    /\ UNCHANGED <<engine, input, user_autotune, values, dimension_values, dle_autotune>>
    /\ UNCHANGED <<parked, dimension_module>>

ArgumentNames(A) == {A[i].name : i \in 1..Len(A)}
DimNames(DS) == {DS[i].name : i \in 1..Len(DS)}
ArgNode(A, name) == CHOOSE x \in Range(A) : x.name = name

\* lines 244-245: the caller's value or None, through get_value
SeedValues(A, kw) ==
    [name \in ArgumentNames(A) |-> visit_object(ArgNode(A, name), Get(kw, name))]

\* lines 247-248
SeedDimensionValues(A, DS, kw) ==
    LET rest == [k \in DOMAIN kw \ ArgumentNames(A) |-> kw[k]]
    IN [name \in DimNames(DS) |-> Get(rest, name)]

\* the keys no argument and no dimension popped (line 251)
Unconsumed(A, DS, kw) == DOMAIN kw \ (ArgumentNames(A) \cup DimNames(DS))

FirstSeedRaise(A, seeded) ==
    seeded[A[CHOOSE i \in 1..Len(A) :
                /\ IsRaise(seeded[A[i].name])
                /\ \A k \in 1..(i-1) : ~IsRaise(seeded[A[k].name])].name]

\* _derive_values, lines 241-252: pass 1 and the rejection of unknown keys
Seed ==
    /\ pc = "_derive_values"
    /\ LET seeded == SeedValues(arguments, kwargs)
       IN IF \E n \in DOMAIN seeded : IsRaise(seeded[n])
          THEN /\ outcome' = Raised(FirstSeedRaise(arguments, seeded).exc, "_derive_values")
               /\ pc' = "done"
               /\ UNCHANGED <<values, dimension_values, kwargs>>
          ELSE IF Unconsumed(arguments, dims, kwargs) # {}
          THEN /\ outcome' = Raised("InvalidArgument", "_derive_values")
               /\ pc' = "done"
               /\ values' = seeded
               /\ dimension_values' = SeedDimensionValues(arguments, dims, kwargs)
               /\ kwargs' = [k \in Unconsumed(arguments, dims, kwargs) |-> kwargs[k]]
          ELSE /\ values' = seeded
               /\ dimension_values' = SeedDimensionValues(arguments, dims, kwargs)
               /\ kwargs' = EmptyMap
               /\ pc' = "derive"
               /\ UNCHANGED outcome
    /\ UNCHANGED <<engine, input, user_autotune, dle_autotune>>
    /\ UNCHANGED <<parked, dimension_module>>

\* lines 256-264 for one argument i whose value is None
DeriveArgument(i, vals, dimvals, E) ==
    LET known_values == KnownValues(vals, dimvals)
        deps == gets_value_from(i)
        provided_values == [k \in 1..Len(deps) |-> get_value(i, deps[k], known_values, E)]
    IN IF ~Iterable(i) THEN Raise("TypeError")
       ELSE IF AnyRaise(provided_values) THEN FirstRaise(provided_values)
       ELSE IF Len(provided_values) = 0 THEN Raise("AssertionError")
       ELSE IF Len(provided_values) = 1 THEN provided_values[1]
       ELSE Raise("TypeError")

\* the loop deriving every argument, the supplied ones as well
RECURSIVE DeriveLoop_overwriting(_, _, _, _, _)
DeriveLoop_overwriting(k, A, vals, dimvals, E) ==
    IF k > Len(A) THEN [exc |-> "", values |-> vals]
    ELSE LET v == DeriveArgument(A[k], vals, dimvals, E)
         IN IF IsRaise(v) THEN [exc |-> v.exc, values |-> vals]
            ELSE DeriveLoop_overwriting(k + 1, A, [vals EXCEPT ![A[k].name] = v],
                                        dimvals, E)

\* the loop of lines 255-264 from argument k on
RECURSIVE DeriveLoop(_, _, _, _, _)
DeriveLoop(k, A, vals, dimvals, E) ==
    IF k > Len(A) THEN [exc |-> "", values |-> vals]
    ELSE IF vals[A[k].name] # None THEN DeriveLoop(k + 1, A, vals, dimvals, E)
    ELSE LET v == DeriveArgument(A[k], vals, dimvals, E)
         IN IF IsRaise(v) THEN [exc |-> v.exc, values |-> vals]
            ELSE DeriveLoop(k + 1, A, [vals EXCEPT ![A[k].name] = v], dimvals, E)

Derive ==
    /\ pc = "derive"
    /\ LET r == DeriveLoop(1, arguments, values, dimension_values, Engine)
       IN /\ values' = r.values
          /\ IF r.exc # ""
             THEN /\ outcome' = Raised(r.exc, "_derive_values")
                  /\ pc' = "done"
             ELSE /\ pc' = "settle"
                  /\ UNCHANGED outcome
    /\ UNCHANGED <<engine, input, kwargs, user_autotune, dimension_values, dle_autotune>>
    /\ UNCHANGED <<parked, dimension_module>>

\* the loop of lines 267-269 leaving it after the first placeholder
RECURSIVE SettleLoop_first_only(_, _, _, _)
SettleLoop_first_only(k, A, vals, E) ==
    IF k > Len(A) THEN [exc |-> "", values |-> vals, evaluated |-> <<>>]
    ELSE IF ~IsUD(vals[A[k].name]) THEN SettleLoop_first_only(k + 1, A, vals, E)
    ELSE LET v == evaluate(vals[A[k].name], KnownValues(vals, EmptyMap), E)
         IN IF IsRaise(v)
            THEN [exc |-> v.exc, values |-> vals, evaluated |-> <<A[k].name>>]
            ELSE [exc |-> "", values |-> [vals EXCEPT ![A[k].name] = v],
                  evaluated |-> <<A[k].name>>]

\* the loop of lines 267-269 from argument k on: known_values is values;
\* evaluated lists the arguments whose placeholder evaluate was called on
RECURSIVE SettleLoop(_, _, _, _)
SettleLoop(k, A, vals, E) ==
    IF k > Len(A) THEN [exc |-> "", values |-> vals, evaluated |-> <<>>]
    ELSE IF ~IsUD(vals[A[k].name]) THEN SettleLoop(k + 1, A, vals, E)
    ELSE LET v == evaluate(vals[A[k].name], KnownValues(vals, EmptyMap), E)
         IN IF IsRaise(v)
            THEN [exc |-> v.exc, values |-> vals, evaluated |-> <<A[k].name>>]
            ELSE LET rest == SettleLoop(k + 1, A,
                                        [vals EXCEPT ![A[k].name] = v], E)
                 IN [rest EXCEPT !.evaluated = <<A[k].name>> \o @]

Settle ==
    /\ pc = "settle"
    /\ LET r == SettleLoop(1, arguments, values, Engine)
       IN /\ values' = r.values
          /\ IF r.exc # ""
             THEN /\ outcome' = Raised(r.exc, "_derive_values")
                  /\ pc' = "done"
             ELSE /\ pc' = "_dle_arguments"
                  /\ UNCHANGED outcome
    /\ UNCHANGED <<engine, input, kwargs, user_autotune, dimension_values, dle_autotune>>
    /\ UNCHANGED <<parked, dimension_module>>

\* ArgumentEngine.dimensions
dimensions(P) == SelectSeq(P, IsDimension)

\* line 140
dim_sizes(P, vals) ==
    [name \in {dimensions(P)[i].name : i \in 1..Len(dimensions(P))} |->
        runtime_dim_extent(name, KnownValues(vals, EmptyMap))]

\* whether descriptor i leaves autotuning eligible (lines 229-236)
Eligible(i) == ~(Truthy(i.value) /\ i.value.k = "const")

\* the size lines 229-236 store for descriptor i
tile_size(i, dim_size) ==
    IF Truthy(i.value)
    THEN IF i.value.k = "fn" THEN PyInt(ApplySizing(dim_size.n))
         ELSE PyInt(i.value.c)
    ELSE dim_size

\* _dle_arguments: the error of line 228, else the sizes by argument name
\* (a later descriptor of the same argument overwrites) and the autotune flag
_dle_arguments(D, sizes) ==
    IF \E j \in 1..Len(D) : Get(sizes, D[j].original_dim) = None
    THEN [exc |-> "InvalidArgument", autotune |-> TRUE, dle_arguments |-> EmptyMap]
    ELSE [exc |-> "", autotune |-> \A j \in 1..Len(D) : Eligible(D[j]),
          dle_arguments |->
             [name \in {D[j].argument : j \in 1..Len(D)} |->
                LET last == CHOOSE j \in 1..Len(D) :
                               /\ D[j].argument = name
                               /\ \A k \in (j+1)..Len(D) : D[k].argument # name
                IN tile_size(D[last], sizes[D[last].original_dim])]]

DleArguments ==
    /\ pc = "_dle_arguments"
    /\ LET r == _dle_arguments(dle_arguments, dim_sizes(parameters, values))
       IN IF r.exc # ""
          THEN /\ outcome' = Raised(r.exc, "_dle_arguments")
               /\ pc' = "done"
               /\ UNCHANGED dle_autotune
          ELSE /\ dle_autotune' = r.autotune
               /\ pc' = "_verify"
               /\ UNCHANGED outcome
    /\ UNCHANGED <<engine, input, kwargs, user_autotune, values, dimension_values>>
    /\ UNCHANGED <<parked, dimension_module>>

\* _verify checking nothing
_verify_nothing(A) == ""

\* _verify: verify is the local bool, so verify(i, x) raises TypeError for
\* the first argument that owns a verified_by dependency; so does iterating
\* dependencies that are no list
_verify(A) ==
    IF \E k \in 1..Len(A) : ~Iterable(A[k]) \/ Len(verified_by(A[k])) > 0
    THEN "TypeError" ELSE ""

\* lines 144-147
VerifyAndReturn ==
    /\ pc = "_verify"
    /\ IF _verify(arguments) # ""
       THEN outcome' = Raised(_verify(arguments), "_verify")
       ELSE outcome' = Returned
    /\ pc' = "done"
    /\ UNCHANGED <<engine, input, kwargs, user_autotune, values, dimension_values, dle_autotune>>
    /\ UNCHANGED <<parked, dimension_module>>

\* line 147: user_autotune and dle_autotune
ReturnedAutotune == user_autotune /\ dle_autotune

\* the call is over, its value mappings kept (cached on the engine)
Finish_keeping_values ==
    /\ pc = "done"
    /\ pc' = "idle"
    /\ input' = EmptyMap
    /\ kwargs' = EmptyMap
    /\ user_autotune' = FALSE
    /\ dle_autotune' = TRUE
    /\ outcome' = Unset
    /\ UNCHANGED <<engine, values, dimension_values, parked, dimension_module>>

\* the call is over: its locals are dropped
Finish ==
    /\ pc = "done"
    /\ pc' = "idle"
    /\ input' = EmptyMap
    /\ kwargs' = EmptyMap
    /\ user_autotune' = FALSE
    /\ values' = EmptyMap
    /\ dimension_values' = EmptyMap
    /\ dle_autotune' = TRUE
    /\ outcome' = Unset
    /\ UNCHANGED engine
    /\ UNCHANGED <<parked, dimension_module>>

\* a client attaches a verified_by dependency to an argument node
AttachVerifier(k, pred) ==
    /\ pc = "idle"
    /\ k \in 1..Len(arguments)
    /\ Len(Flatten([i \in 1..Len(arguments) |-> verified_by(arguments[i])])) < MaxVerifiers
    /\ arguments' = [arguments EXCEPT ![k].dependencies =
                        Append(@, Dependency(VERIFIED_BY, "predicate", pred.name, pred.limit))]
    /\ UNCHANGED <<parameters, dle_arguments, stencils, dims, offsets, pc, input,
                   kwargs, user_autotune, values, dimension_values,
                   dle_autotune, outcome>>
    /\ UNCHANGED <<parked, dimension_module>>

Step ==
    \/ Construct
    \/ OffsetAdjust
    \/ ExtractChildren
    \/ Seed
    \/ Derive
    \/ Settle
    \/ DleArguments
    \/ VerifyAndReturn
    \/ Finish

Next ==
    \/ Step
    \/ \E inp \in Inputs : Call(inp)

\* engines without tiling descriptors
InitPlain == Init /\ dle_arguments = <<>>

NextComposite ==
    \/ Step
    \/ \E inp \in CompositeInputs : Call(inp)

NextVerify ==
    \/ Step
    \/ \E inp \in Inputs : Call(inp)
    \/ \E k \in 1..Len(arguments), pred \in Predicates : AttachVerifier(k, pred)

\* an engine before construction, no call running
Unbuilt ==
    /\ stencils \in StencilSets
    /\ arguments = <<>>
    /\ dims = <<>>
    /\ offsets = EmptyMap
    /\ pc = "new"
    /\ input = EmptyMap
    /\ kwargs = EmptyMap
    /\ user_autotune = FALSE
    /\ values = EmptyMap
    /\ dimension_values = EmptyMap
    /\ dle_autotune = TRUE
    /\ outcome = Unset
    /\ parked = IdleLocals
    /\ class_flags = NoFlags
    /\ derived_dims = <<>>

\* engines built for tiling
InitTiling ==
    /\ parameters \in TilingParameterLists
    /\ dle_arguments \in TilingDleLists
    /\ Unbuilt

\* engines with plain scalars and constants
InitScalar ==
    /\ parameters \in ScalarParameterLists
    /\ dle_arguments = <<>>
    /\ Unbuilt

NextScalar ==
    \/ Step
    \/ \E inp \in ScalarInputs : Call(inp)

NextTiling ==
    \/ Step
    \/ \E inp \in TilingInputs : Call(inp)

\* DerivedDimension.__new__ / SubsampledDimension.__new__: the flags of the
\* parent are assigned on the class cls, the parent on the new object
NewDerived(cls, parent) ==
    /\ Len(derived_dims) < MaxDerived
    /\ class_flags' = [class_flags EXCEPT ![cls] = FlagsOf(parent, class_flags, derived_dims)]
    /\ derived_dims' = Append(derived_dims, [cls |-> cls, parent |-> parent])
    /\ UNCHANGED <<engine, pc, input, kwargs, user_autotune, values,
                   dimension_values, dle_autotune, outcome, parked>>

Parents ==
    {BaseParent(c) : c \in BaseClasses} \cup {DerivedParent(i) : i \in 1..Len(derived_dims)}

DerivedDimension_new == \E parent \in Parents : NewDerived("DerivedDimension", parent)
SubsampledDimension_new == \E parent \in Parents : NewDerived("SubsampledDimension", parent)

\* the dimension module alone: no engine is built
InitDimension ==
    /\ parameters = <<>>
    /\ dle_arguments = <<>>
    /\ Unbuilt

NextDimension ==
    \/ DerivedDimension_new
    \/ SubsampledDimension_new

Fail(exc, at) == [status |-> "raised", exc |-> exc, at |-> at]

\* handle run alone, lines 129-147 as one function of the input and the
\* engine (E: parameters, descriptors and dimension nodes; A: arguments)
handle(inp, E, A, offs) ==
    LET ua == IF "autotune" \in DOMAIN inp THEN inp["autotune"].b ELSE FALSE
        adjusted == _offset_adjust(Pop(inp, "autotune"), offs)
        flat == _extract_children_of_composites(adjusted, E.P)
        seeded == SeedValues(A, flat.kwargs)
        derived == DeriveLoop(1, A, seeded,
                              SeedDimensionValues(A, E.DS, flat.kwargs), E)
        settled == SettleLoop(1, A, derived.values, E)
        tiled == _dle_arguments(E.D, dim_sizes(E.P, settled.values))
    IN IF \E k \in DOMAIN adjusted : IsRaise(adjusted[k])
       THEN Fail("TypeError", "_offset_adjust")
       ELSE IF flat.exc # ""
       THEN Fail(flat.exc, "_extract_children_of_composites")
       ELSE IF \E n \in DOMAIN seeded : IsRaise(seeded[n])
       THEN Fail(FirstSeedRaise(A, seeded).exc, "_derive_values")
       ELSE IF Unconsumed(A, E.DS, flat.kwargs) # {}
       THEN Fail("InvalidArgument", "_derive_values")
       ELSE IF derived.exc # "" THEN Fail(derived.exc, "_derive_values")
       ELSE IF settled.exc # "" THEN Fail(settled.exc, "_derive_values")
       ELSE IF tiled.exc # "" THEN Fail(tiled.exc, "_dle_arguments")
       ELSE IF _verify(A) # "" THEN Fail(_verify(A), "_verify")
       ELSE [status |-> "returned", values |-> settled.values,
             autotune |-> ua /\ tiled.autotune]

\* the locals of the running call
Locals ==
    [pc |-> pc, input |-> input, kwargs |-> kwargs,
     user_autotune |-> user_autotune, values |-> values,
     dimension_values |-> dimension_values,
     dle_autotune |-> dle_autotune, outcome |-> outcome]

\* the running call is suspended and the other call goes on (or starts)
Switch ==
    /\ pc \notin {"new", "unbuilt"}
    /\ parked' = Locals
    /\ pc' = parked.pc
    /\ input' = parked.input
    /\ kwargs' = parked.kwargs
    /\ user_autotune' = parked.user_autotune
    /\ values' = parked.values
    /\ dimension_values' = parked.dimension_values
    /\ dle_autotune' = parked.dle_autotune
    /\ outcome' = parked.outcome
    /\ UNCHANGED <<engine, dimension_module>>

\* engines over providers of every kind, without tiling descriptors
InitWide ==
    /\ parameters \in WideParameterLists
    /\ dle_arguments = <<>>
    /\ stencils \in StencilSets
    /\ arguments = <<>>
    /\ dims = <<>>
    /\ offsets = EmptyMap
    /\ pc = "new"
    /\ input = EmptyMap
    /\ kwargs = EmptyMap
    /\ user_autotune = FALSE
    /\ values = EmptyMap
    /\ dimension_values = EmptyMap
    /\ dle_autotune = TRUE
    /\ outcome = Unset
    /\ parked = IdleLocals
    /\ class_flags = NoFlags
    /\ derived_dims = <<>>

NextWide ==
    \/ Step
    \/ \E inp \in WideInputs : Call(inp)

InitPair ==
    /\ Init
    /\ parameters \in PairParameterLists
    /\ dle_arguments \in PairDleLists

NextPair ==
    \/ Step
    \/ \E inp \in PairInputs : Call(inp)
    \/ Switch

Spec == Init /\ [][Next]_vars

\* engines built from constants, handles and stepping dimensions
SpecWide == InitWide /\ [][NextWide]_vars

\* the positions of a running handle call, in the order of lines 129-147
Positions ==
    << "_offset_adjust", "_extract_children_of_composites", "_derive_values",
       "derive", "settle", "_dle_arguments", "_verify", "done" >>
MidCall == {Positions[i] : i \in 1..(Len(Positions) - 1)}

\* the running call moves on to another position
Advance == pc \in MidCall /\ pc' \in Range(Positions) /\ pc' # pc

\* handle is synchronous: a call that has started keeps executing (each
\* step is enabled as soon as its position is reached)
FairWide == SpecWide /\ WF_pc(Advance)

\* two handle calls on one engine, their steps interleaved
SpecScalar == InitScalar /\ [][NextScalar]_vars

SpecDimension == InitDimension /\ [][NextDimension]_vars

SpecTiling == InitTiling /\ [][NextTiling]_vars

SpecPair == InitPair /\ [][NextPair]_vars

\* calls that may carry composite aggregates
SpecComposite == InitPlain /\ [][NextComposite]_vars

\* engines whose arguments may carry verified_by dependencies
SpecVerify == InitPlain /\ [][NextVerify]_vars

(***************************************************************************)
(* Properties.                                                             *)
(***************************************************************************)
HasReturned == pc = "done" /\ outcome.status = "returned"
HasRaised(exc, at) == pc = "done" /\ outcome = Raised(exc, at)
GraphDims == DimNames(dims)
MaxOf(S) == CHOOSE m \in S : \A n \in S : n <= m

\* C1: when handle reaches verification or returns, no value of the
\* mapping is an UnevaluatedDependency placeholder.
C1_NoPlaceholderLeft ==
    (pc = "_verify" \/ HasReturned) =>
        \A n \in DOMAIN values : ~IsUD(values[n])

\* the tensors indexed by dimension d, with the position
TensorsOn(d) ==
    UNION { { [name |-> x.name, pos |-> i] :
                i \in {k \in 1..Len(x.indices) : x.indices[k] = d} } :
            x \in {y \in Range(parameters) : IsSymbolicFunction(y)} }
NoOverride(d) == d \notin DOMAIN input /\ size_name(d) \notin DOMAIN input
ShapeCandidates(d) == {values[t.name].shape[t.pos] : t \in TensorsOn(d)}
C2_Case(d) == HasReturned /\ Cardinality(TensorsOn(d)) >= 2 /\ NoOverride(d)

\* the tile size of descriptor j from the returned end and start values
TileSize(j) ==
    LET i == dle_arguments[j]
        extent == values[end_name(i.original_dim)].n - values[start_name(i.original_dim)].n
    IN IF i.value.k = "fn" THEN extent \div 2
       ELSE IF i.value.k = "const" /\ i.value.c # 0 THEN i.value.c
       ELSE extent
TileCandidates(d) ==
    {TileSize(j) : j \in {k \in 1..Len(dle_arguments) : dle_arguments[k].argument = d}}

\* C2 as stated: for a dimension indexed by two or more tensors and not
\* overridden, the derived size is the maximum of the tensors' shapes.
C2_MaxOfShapesOnly ==
    \A d \in GraphDims :
        C2_Case(d) => values[size_name(d)] = PyInt(MaxOf(ShapeCandidates(d)))

\* C2 amended: the derived size is the maximum of the tensors' shapes and
\* of the tile sizes of the descriptors whose blocked dimension it is.
C2_MaxOfCandidates ==
    \A d \in GraphDims :
        C2_Case(d) =>
            values[size_name(d)] =
                PyInt(MaxOf(ShapeCandidates(d) \cup TileCandidates(d)))

C2_Witness ==
    /\ C2_Case("x")
    /\ ShapeCandidates("x") = {10, 14}
    /\ values["x_size"] = PyInt(14)

\* C3: a start argument the caller does not supply is 0 in the returned
\* mapping.
C3_StartDefault ==
    HasReturned =>
        \A d \in GraphDims :
            start_name(d) \notin DOMAIN input => values[start_name(d)] = PyInt(0)

C3_Witness ==
    /\ HasReturned
    /\ "x" \in DOMAIN input
    /\ "x_s" \notin DOMAIN input
    /\ values["x_size"] = PyInt(20)
    /\ values["x_s"] = PyInt(0)

UnknownKeys ==
    DOMAIN input \ ({"autotune"} \cup ArgumentNames(arguments) \cup GraphDims)

\* C4: a call with a key that names no argument and no dimension ends
\* with the InvalidArgument error.
C4_UnknownKeyRejected ==
    (pc = "done" /\ UnknownKeys # {}) =>
        outcome.status = "raised" /\ outcome.exc = "InvalidArgument"

\* the halo offset of dimension d: the largest absolute stencil offset
Halo(d) ==
    IF d \in DOMAIN stencils THEN MaxOf({Abs(o) : o \in stencils[d]}) ELSE 0

\* C5: a supplied end value E is returned as E + h, and offset adjustment
\* changes no key that is not the end name of a dimension.
C5_HaloAddedOnce ==
    /\ HasReturned =>
          \A d \in GraphDims :
              end_name(d) \in DOMAIN input =>
                  values[end_name(d)] = PyInt(input[end_name(d)].n + Halo(d))
    /\ pc = "_extract_children_of_composites" =>
          \A k \in DOMAIN kwargs :
              k \notin {end_name(d) : d \in DOMAIN stencils} => kwargs[k] = input[k]

C5_Witness ==
    /\ HasReturned
    /\ "x_e" \in DOMAIN input
    /\ "x_s" \in DOMAIN input
    /\ input["x_e"] = PyInt(9)
    /\ values["x_e"] = PyInt(11)
    /\ values["x_s"] = input["x_s"]

\* C6: the returned autotune flag is the request AND no descriptor having
\* a fixed constant as its sizing value.
C6_AutotuneFlag ==
    HasReturned =>
        ReturnedAutotune =
            (user_autotune /\
             \A j \in 1..Len(dle_arguments) : dle_arguments[j].value.k # "const")

\* C7: handle never returns a mapping in which a value fails a verified_by
\* predicate of its argument.
C7_NoReturnOnFailedPredicate ==
    HasReturned =>
        \A k \in 1..Len(arguments) :
            \A i \in 1..Len(verified_by(arguments[k])) :
                Holds(verified_by(arguments[k])[i], values[arguments[k].name])

C7_Witness ==
    /\ pc = "done"
    /\ outcome.status = "raised"
    /\ outcome.at = "_verify"
    /\ \E k \in 1..Len(arguments) :
          \E i \in 1..Len(verified_by(arguments[k])) :
              ~Holds(verified_by(arguments[k])[i], values[arguments[k].name])

ExtentKnown(d) ==
    /\ end_name(d) \in DOMAIN values /\ values[end_name(d)].t = "int"
    /\ start_name(d) \in DOMAIN values /\ values[start_name(d)].t = "int"

\* C8: the tiling step raises the unresolvable-dimension-size error
\* exactly when some descriptor's original dimension has no numeric end
\* and start among the derived values.
C8_UnknownSizeExactly ==
    /\ pc = "_verify" =>
          \A j \in 1..Len(dle_arguments) : ExtentKnown(dle_arguments[j].original_dim)
    /\ (pc = "done" /\ outcome.at = "_dle_arguments") =>
          /\ outcome.exc = "InvalidArgument"
          /\ \E j \in 1..Len(dle_arguments) : ~ExtentKnown(dle_arguments[j].original_dim)

UndeclaredComposites ==
    {k \in CompositeKeys(input) : \A i \in 1..Len(parameters) : parameters[i].name # k}

\* C9: a composite supplied under a name no parameter has makes
\* flattening fail with InvalidArgument, before any value is derived.
C9_UnknownCompositeRejected ==
    (pc = "done" /\ UndeclaredComposites # {}) =>
        /\ outcome = Raised("InvalidArgument", "_extract_children_of_composites")
        /\ values = EmptyMap

DeclaredChildren(kw) ==
    UNION { {orig_param_l(parameters, k)[1].children[j] :
                j \in 1..Min(Len(orig_param_l(parameters, k)[1].children),
                             Len(kw[k].children))} : k \in CompositeKeys(kw) }

Flattened ==
    /\ \A k \in CompositeKeys(kwargs) :
          LET decl == orig_param_l(parameters, k)[1].children
          IN \A j \in 1..Min(Len(decl), Len(kwargs[k].children)) :
                /\ decl[j] \in DOMAIN kwargs'
                /\ kwargs'[decl[j]] = kwargs[k].children[j]
    /\ \A k \in DOMAIN kwargs :
          k \notin DeclaredChildren(kwargs) => k \in DOMAIN kwargs' /\ kwargs'[k] = kwargs[k]
    /\ DOMAIN kwargs' = DOMAIN kwargs \cup DeclaredChildren(kwargs)

\* C10: flattening a composite supplied under a declared name adds the
\* j-th declared child's name with the j-th supplied child for every
\* paired position j, and changes no other entry.
C10_PositionalPairing ==
    [][(pc = "_extract_children_of_composites" /\ pc' = "_derive_values")
         => Flattened]_vars

C10_Witness ==
    /\ pc = "_derive_values"
    /\ "c" \in DOMAIN input
    /\ "x_e" \in DOMAIN input
    /\ DOMAIN kwargs = {"c", "x_e", "f", "g"}
    /\ kwargs["f"] = FunctionObject(<<11>>)
    /\ kwargs["g"] = FunctionObject(<<15>>)
    /\ kwargs["x_e"] = PyInt(11)

\* what a finished call hands to its caller: the mapping and the flag, or
\* the error
Result(l) ==
    IF l.outcome.status = "returned"
    THEN [status |-> "returned", values |-> l.values,
          autotune |-> l.user_autotune /\ l.dle_autotune]
    ELSE [status |-> l.outcome.status, exc |-> l.outcome.exc, at |-> l.outcome.at]

\* C11: two finished handle calls on the same engine with the same input
\* have the same result: the same mapping and autotune flag, or the same
\* error.
C11_SameInputSameResult ==
    (pc = "done" /\ parked.pc = "done" /\ parked.input = input) =>
        Result(Locals) = Result(parked)

C11_Witness ==
    /\ pc = "done" /\ parked.pc = "done"
    /\ parked.input = input
    /\ "x_e" \in DOMAIN input
    /\ Len(dle_arguments) = 1
    /\ outcome.status = "returned"
    /\ values["x_e"] = PyInt(11)
    /\ parked.values["x_e"] = PyInt(11)

\* C12: no step of a handle call changes the engine (parameters, tiling
\* descriptors, stencils, argument and dimension nodes with their
\* dependency lists, offsets), whether the call returns or fails, and when
\* the call is over none of its value mappings is left.
C12_EngineUnchanged ==
    [][/\ pc # "new" => engine' = engine
       /\ pc = "done" =>
             /\ values' = EmptyMap
             /\ dimension_values' = EmptyMap
             /\ kwargs' = EmptyMap]_vars

C12_Witness ==
    /\ pc = "done"
    /\ outcome = Raised("InvalidArgument", "_dle_arguments")
    /\ "x_e" \in DOMAIN values /\ values["x_e"] = PyInt(11)
    /\ Len(arguments) > 0 /\ Len(dle_arguments) = 2
    /\ offsets = Offsets(stencils)

\* C13: with the steps of two handle calls interleaved, no step of a call
\* changes the engine or the other call's locals, and every call that
\* finishes has the result handle gives for its input when run alone.
C13_InterleavedAsAlone ==
    /\ [](pc = "done" =>
            Result(Locals) = handle(input, Engine, arguments, offsets))
    /\ [][pc # "new" =>
            /\ engine' = engine
            /\ parked' = parked \/ parked' = Locals]_vars

C13_Witness ==
    /\ pc = "done" /\ outcome.status = "returned"
    /\ parked.pc = "settle"
    /\ "x_e" \in DOMAIN input /\ values["x_e"] = PyInt(11)
    /\ "x" \in DOMAIN parked.input /\ "x_e" \notin DOMAIN parked.input
    /\ Len(dle_arguments) = 1

\* the arguments holding a placeholder, in the order of the mapping
Placeholders(A, vals) ==
    LET Is(a) == IsUD(vals[a.name])
        held == SelectSeq(A, Is)
    IN [i \in 1..Len(held) |-> held[i].name]

\* C14: every handle call that starts comes to its end (returns or
\* raises): each step moves it to a later position, no dimension node is
\* resolved through itself, and when pass 3 runs through, it has evaluated
\* each placeholder of the mapping exactly once.
\* the dimension nodes the node of dimension d gets its value from
Targets(d) ==
    {dep.obj : dep \in {x \in Range(gets_value_from(DimNode(dims, d))) :
                            x.kind = "DimensionParameter"}}
RECURSIVE ReachIn(_, _)
ReachIn(S, n) ==
    IF n = 0 THEN S ELSE ReachIn(S \cup UNION {Targets(m) : m \in S}, n - 1)
\* no dimension node is resolved through itself
Acyclic == \A d \in GraphDims : d \notin ReachIn(Targets(d), Len(dims))

Rank(p) == CHOOSE i \in 1..Len(Positions) : Positions[i] = p

\* a step of a running call leaves it at a later position
Forward == pc \in MidCall => Rank(pc') > Rank(pc)

DimensionNames(d) == {size_name(d), start_name(d), end_name(d)}
KernelVisible ==
    {parameters[i].name : i \in {k \in 1..Len(parameters) : ~IsDimension(parameters[k])}}
        \cup UNION {DimensionNames(d) : d \in GraphDims}

ReturnedNames == [i \in 1..Len(arguments) |-> arguments[i].name]

\* where the provider of an argument name is declared (0: a dimension that
\* only a tensor index names)
ProviderIndex(name) ==
    LET Provides(k) ==
            IF IsDimension(parameters[k])
            THEN name \in DimensionNames(parameters[k].name)
            ELSE name = parameters[k].name
        at == {k \in 1..Len(parameters) : Provides(k)}
    IN IF at = {} THEN 0 ELSE CHOOSE k \in at : \A m \in at : k <= m

NamesOf(seq) == [i \in 1..Len(seq) |-> seq[i].name]
GroupedOrder ==
    LET IsOther(x) == ~IsSymbolicFunction(x) /\ ~IsDimension(x)
    IN NamesOf(symbolic_functions(parameters))
       \o Flatten([i \in 1..Len(dims) |->
                      << size_name(dims[i].name), start_name(dims[i].name),
                         end_name(dims[i].name) >>])
       \o NamesOf(SelectSeq(parameters, IsOther))

SomePredicateFails ==
    \E k \in 1..Len(arguments) :
        \E i \in 1..Len(verified_by(arguments[k])) :
            ~Holds(verified_by(arguments[k])[i], values[arguments[k].name])

\* C17: a call whose verification fails ends with the user-facing
\* InvalidArgument, never with an assertion failure or another error.
C17_FailureIsInvalidArgument ==
    (pc = "done" /\ outcome.at = "_verify" /\ SomePredicateFails) =>
        outcome = Raised("InvalidArgument", "_verify")

\* C18: a value the caller supplies under the name of an argument (the end
\* scalars, which get the halo, aside) is the value handle returns for it,
\* whatever the tensor shapes would give.
C18_SuppliedValueKept ==
    HasReturned =>
        \A n \in (DOMAIN input \cap ArgumentNames(arguments)) \ DOMAIN offsets :
            values[n] = input[n]

C18_Witness ==
    /\ HasReturned
    /\ {"f", "g"} \subseteq {parameters[i].name : i \in 1..Len(parameters)}
    /\ input = [n \in {"x_size"} |-> PyInt(5)]
    /\ values["x_size"] = PyInt(5)
    /\ values["x_e"] = PyInt(14)

\* C19: a value the caller supplies under a dimension's own name, with no
\* size (end) argument supplied for it, is the returned size (end) of the
\* dimension, whatever the tensor shapes and tile sizes give.
C19_DimensionValueOverrides ==
    HasReturned =>
        \A d \in GraphDims \cap DOMAIN input :
            /\ size_name(d) \notin DOMAIN input => values[size_name(d)] = input[d]
            /\ end_name(d) \notin DOMAIN input => values[end_name(d)] = input[d]

C19_Witness ==
    /\ HasReturned
    /\ {"c", "f", "g"} \subseteq {parameters[i].name : i \in 1..Len(parameters)}
    /\ dle_arguments = <<DleArgument("x", "w", SizingFunction)>>
    /\ input = [n \in {"x", "w"} |-> IF n = "x" THEN PyInt(20) ELSE PyInt(6)]
    /\ values["x_size"] = PyInt(20)
    /\ values["x_e"] = PyInt(20)
    /\ values["w_size"] = PyInt(6)

\* the arguments pass 2 left a deferred maximum for
Deferred ==
    {n \in DOMAIN values :
        IsUD(values[n]) /\ values[n].evaluator = "late_evaluate_dim_size"}

CaseSize(i, extent) ==
    CASE i.value.k = "fn" -> PyInt(ApplySizing(extent.n))
      [] i.value.k = "const" -> PyInt(i.value.c)
      [] OTHER -> extent

\* C21: for every descriptor, with the values of the running call: if the
\* extent of the dimension it blocks is known, the tile size is the sizing
\* function of the extent, the fixed constant (the descriptor then being
\* ineligible for autotuning) or, with no sizing value, the extent; if the
\* extent is unknown, the result is a placeholder retrying the computation.
C21_TileSizeCases ==
    pc \in {"settle", "_dle_arguments", "_verify", "done"} =>
    \A j \in 1..Len(dle_arguments) :
        LET i == dle_arguments[j]
            known_values == KnownValues(values, dimension_values)
            extent == runtime_dim_extent(i.original_dim, known_values)
            r == derive_dle_argument_value(i.argument, known_values, j,
                                           dle_arguments)
        IN /\ extent # None => r = CaseSize(i, extent)
           /\ extent = None =>
                 r = UnevaluatedDependency(i.argument,
                         "derive_dle_argument_value", j, <<>>, <<>>)
           /\ Eligible(i) = (i.value.k # "const")

\* the declared provider an argument is named after, if any
OwnProviders(a) ==
    {p \in Range(parameters) : p.name = a.name /\ ~IsDimension(p)}

\* C22: every argument of a built engine owns at least one gets_value_from
\* dependency, a plain scalar and a constant one on its own provider; a
\* scalar or constant the caller gives no value for is returned with the
\* declared default of its provider.
C22_EveryArgumentHasSource ==
    /\ pc \notin {"new", "unbuilt"} =>
          \A k \in 1..Len(arguments) :
              /\ Iterable(arguments[k])
              /\ Len(gets_value_from(arguments[k])) >= 1
              /\ \A p \in OwnProviders(arguments[k]) :
                    p.kind \in {"Scalar", "Constant"} =>
                        \E d \in Range(gets_value_from(arguments[k])) :
                            d.obj = p.name /\ d.kind = p.kind
    /\ pc \in {"settle", "_dle_arguments", "_verify", "done"} =>
          (outcome.status # "raised" =>
             \A p \in Range(parameters) :
                (p.kind \in {"Scalar", "Constant"} /\ p.name \notin DOMAIN input)
                    => values[p.name] = p.value)

\* C23: the construction of an engine raises no error, whatever providers
\* and descriptors are declared.
C23_ConstructionTotal ==
    /\ pc # "unbuilt"
    /\ outcome.at # "__init__"

\* the dependencies of the node of dimension d on the node of dimension e
EdgesBetween(d, e) ==
    {k \in 1..Len(DimNode(dims, d).dependencies) :
        LET dep == DimNode(dims, d).dependencies[k]
        IN dep.kind = "DimensionParameter" /\ dep.obj = e}

SteppingDeclared ==
    {p \in Range(parameters) : p.kind = "SteppingDimension"}

Doubled(node) ==
    {i \in 1..Len(node.dependencies) :
        \E j \in 1..Len(node.dependencies) :
            /\ j # i
            /\ node.dependencies[j].dependency_type
                  = node.dependencies[i].dependency_type
            /\ node.dependencies[j].kind = node.dependencies[i].kind
            /\ node.dependencies[j].obj = node.dependencies[i].obj}

\* C25: in a built engine no node owns two dependencies of the same kind
\* on the same target.
C25_AtMostOneDependency ==
    pc \notin {"new", "unbuilt"} =>
        \A node \in Range(arguments) \cup Range(dims) : Doubled(node) = {}

\* C26: a call that reaches verification with every verified_by predicate
\* of every argument holding on its value returns the mapping.
C26_ReturnsWhenPredicatesHold ==
    (pc = "done" /\ outcome.at \in {"_verify", ""} /\ ~SomePredicateFails)
        => HasReturned

\* C27: every derived dimension created so far reports the is_Time and
\* is_Space of its own parent.
C27_FlagsFollowParent ==
    \A i \in 1..Len(derived_dims) :
        class_flags[derived_dims[i].cls] = FlagsOf(derived_dims[i].parent, class_flags, derived_dims)

\* the dimensions the caller gives neither size nor start nor end for
Underived(d) ==
    {size_name(d), start_name(d), end_name(d)} \cap DOMAIN input = {}

\* C28: for a dimension the caller supplies no size, start or end for, the
\* returned end is the derived size (no halo added), the start is 0 and the
\* runtime extent end - start is the size.
C28_EndIsSize ==
    HasReturned =>
        \A d \in {e \in GraphDims : Underived(e)} :
            /\ values[end_name(d)] = values[size_name(d)]
            /\ values[start_name(d)] = PyInt(0)
            /\ runtime_dim_extent(d, KnownValues(values, EmptyMap))
                  = values[size_name(d)]

Reverse(seq) == [i \in 1..Len(seq) |-> seq[Len(seq) + 1 - i]]
\* the arguments with those at positions i and i + 1 exchanged
Exchanged(seq, i) ==
    [k \in 1..Len(seq) |->
        IF k = i THEN seq[i + 1] ELSE IF k = i + 1 THEN seq[i] ELSE seq[k]]
\* orders in which passes 2 and 3 may visit the arguments
VisitingOrders ==
    {arguments, Reverse(arguments)}
        \cup {Exchanged(arguments, i) : i \in 1..(Len(arguments) - 1)}

\* C29: a finished call has the outcome handle has when passes 2 and 3
\* visit the arguments in any other order.
C29_OrderIndependent ==
    pc = "done" =>
        \A A \in VisitingOrders :
            handle(input, Engine, A, offsets) = Result(Locals)

\* the descriptors that alone decide the size of their argument
SoleSource(j) ==
    /\ dle_arguments[j].argument \in GraphDims
    /\ Len(DimNode(dims, dle_arguments[j].argument).dependencies) = 1
    /\ {dle_arguments[j].argument, size_name(dle_arguments[j].argument)}
          \cap DOMAIN input = {}

\* C30: once derivation is through, for every descriptor whose extent is
\* resolved the tiling-resize step finds that extent and computes from it the
\* size derive_dle_argument_value gives for the descriptor, and that size is
\* the one in the value mapping where the descriptor alone decides it.
C30_SameTileSize ==
    (pc = "done" /\ outcome.at \in {"_dle_arguments", "_verify", ""}) =>
        LET known_values == KnownValues(values, EmptyMap)
            sizes == dim_sizes(parameters, values)
        IN \A j \in 1..Len(dle_arguments) :
              LET i == dle_arguments[j]
                  extent == runtime_dim_extent(i.original_dim, known_values)
                  dim_size == Get(sizes, i.original_dim)
              IN extent # None =>
                    /\ dim_size # None
                    /\ tile_size(i, dim_size)
                          = derive_dle_argument_value(i.argument, known_values,
                                                      j, dle_arguments)
                    /\ SoleSource(j) =>
                          values[size_name(i.argument)] = tile_size(i, dim_size)

\* C31: whenever handle returns normally, no value of the returned mapping
\* is None: an argument that cannot be resolved makes the call fail.
C31_NoNoneReturned ==
    (pc = "done" /\ outcome.status = "returned") =>
        \A k \in DOMAIN values : values[k] # None

=============================================================================
